---- MODULE Spec2Model ----
(***************************************************************************)
(* The persistent language-server client of agents_ide (LSPClient in       *)
(* lsp.py) together with the part of AgentsIDEDaemon.start that reacts to  *)
(* a failed handshake.  The asyncio event loop runs one coroutine at a     *)
(* time, so every action below is the code between two awaits.             *)
(***************************************************************************)
EXTENDS Integers, Sequences, FiniteSets, TLC

\* ---------------------------------------------------------------- bounds
\* number of request() calls issued in one behaviour (the handshake included)
MaxCalls == 2
\* number of frames the language server writes to its stdout in one behaviour
MaxServerMsgs == 2
\* number of frames that may sit unread in the child's stdout pipe
MaxUnread == 1
\* number of times stop() is called in one behaviour
MaxStops == 2
\* number of characters of the text carried in the params of an encoded request
MaxText == 2
\* number of manager.py invocations (start / ensure) running side by side
MaxManagers == 2
\* number of frames in the stream the child writes before it closes its stdout
MaxFrames == 2

\* ------------------------------------------------------------- vocabulary
NoId == 0
NoValue == [for |-> NoId, kind |-> "none", code |-> "none", message |-> "none"]
\* a message without an "error" member, and the error object a server sends
NoError == [code |-> "none", message |-> "none"]
ServerError == [code |-> "-32601", message |-> "Method not found"]
\* an "error" member that is not an object: null, a string, a number
NullError == [code |-> "null", message |-> "null"]
Uris == {"file:///a.py", "file:///b.py"}
DiagPayloads == {"d1", "d2"}
Failures == {"raised_error", "raised_timeout", "raised_send", "cancelled"}

VARIABLES
    process,            \* self.process: "None", "running" or "dead" (handle kept)
    request_id,         \* self.request_id
    calls,              \* the request() calls made so far, with their futures
    pending_requests,   \* self.pending_requests: id -> index of the call owning the future
    read_task,          \* self._read_task: "None", "running", "returned", "cancelled"
    initialized,        \* self._initialized
    diagnostics,        \* self._diagnostics: uri -> payload ("absent" when no key)
    wire,               \* frames handed to process.stdin.write, in order
    stdout,             \* frames the server wrote that the read loop has not read yet
    serverMsgs,         \* frames the server has written so far
    read_errors,        \* times the read loop reached "except Exception" (line 109)
    startPc,            \* position of start(): idle, spawning, handshake, done, failed
    stopPc,             \* position of stop(): idle, waiting, done, raised
    pendingAtStop,      \* the calls that were suspended when stop() ran
    stops,              \* times stop() has been called
    http,               \* the daemon's HTTP site: "down" or "up" (daemon.py run)
    indexed,            \* AgentsIDEDaemon._indexed_files
    reader,             \* the get_diagnostics() call in progress, if any
    codec,              \* one message on its way through _send and the frame decoder
    host,               \* the machine as manager.py sees it: PID file, daemon processes
                        \* spawned so far, and the manager invocations in progress
    daemon              \* the daemon process: "up" or "exited" (sys.exit(1))

vars == <<process, request_id, calls, pending_requests, read_task, initialized,
          diagnostics, wire, stdout, serverMsgs, read_errors, startPc, stopPc,
          pendingAtStop, daemon, stops, http, indexed, reader, codec, host>>

\* what only the daemon's handlers change
daemonVars == <<http, indexed, reader, host>>

\* ---------------------------------------------------------------- helpers
CallIdx == 1..Len(calls)
Waiting(k) == calls[k].outcome = "waiting"
WaitingCalls == {k \in CallIdx : Waiting(k)}

\* lines 66-67: the read task, when there is one, is cancelled
CancelReadTask(t) == IF t = "running" THEN "cancelled" ELSE t

\* dict.pop(key) / del dict[key]
DictPeek(d, key) == d
DictPop(d, key) == [x \in (DOMAIN d) \ {key} |-> d[x]]
\* dict[key] = value
DictSet(d, key, value) == [x \in (DOMAIN d) \cup {key} |-> IF x = key THEN value ELSE d[x]]

\* frames written to the child; uri names the document of params.textDocument
\* ("none" for a message that is not about a document)
RequestFrame(id, method) ==
    [type |-> "request", id |-> id, method |-> method, uri |-> "none"]
NotificationFrame(method) ==
    [type |-> "notification", id |-> NoId, method |-> method, uri |-> "none"]
DocRequestFrame(id, method, uri) == [RequestFrame(id, method) EXCEPT !.uri = uri]
DidOpenFrame(uri) == [NotificationFrame("textDocument/didOpen") EXCEPT !.uri = uri]

ResponseMsg(id, kind) ==
    [id |-> id, method |-> "none", error |-> IF kind = "error" THEN ServerError ELSE NoError,
     payload |-> [for |-> id, kind |-> kind], uri |-> "none"]
DiagnosticsMsg(uri, d) ==
    [id |-> NoId, method |-> "textDocument/publishDiagnostics", error |-> NoError,
     payload |-> [for |-> NoId, kind |-> d], uri |-> uri]

RequestIdsOnWire == {wire[i].id : i \in {j \in 1..Len(wire) : wire[j].type = "request"}}

ReaderIdle == [pc |-> "idle", uri |-> "none", result |-> "none", n |-> 0]
NoMessage == [ok |-> FALSE, id |-> NoId, method |-> <<>>, params |-> <<>>]
CodecOff ==
    [pc |-> "off", id |-> NoId, method |-> <<>>, params |-> <<>>, header |-> <<>>,
     body |-> <<>>, stream |-> <<>>, rest |-> <<>>, content_length |-> 0,
     out |-> NoMessage]

\* manager.py: no PID file, no daemon process, every manager invocation still
\* to run (pid is the local variable of start_daemon)
NoPid == 0
Managers == 1..MaxManagers
HostIdle ==
    [pid_file |-> NoPid, daemons |-> <<>>,
     mgr |-> [m \in Managers |-> [pc |-> "idle", pid |-> NoPid, spawned |-> NoPid]]]

InitClient ==
    /\ process = "None"
    /\ request_id = 0
    /\ calls = <<>>
    /\ pending_requests = <<>>
    /\ read_task = "None"
    /\ initialized = FALSE
    /\ diagnostics = [u \in Uris |-> "absent"]
    /\ wire = <<>>
    /\ stdout = <<>>
    /\ serverMsgs = 0
    /\ read_errors = 0
    /\ startPc = "idle"
    /\ stopPc = "idle"
    /\ pendingAtStop = {}
    /\ daemon = "up"
    /\ stops = 0
    /\ http = "down"
    /\ indexed = {}
    /\ reader = ReaderIdle
    /\ host = HostIdle

Init ==
    /\ InitClient
    /\ codec = CodecOff

\* ------------------------------------------------------------ LSPClient.request
\* a free-list allocator: the smallest id that is not registered at the moment
FirstFreeId ==
    CHOOSE i \in 1..(request_id + 1) :
        /\ i \notin DOMAIN pending_requests
        /\ \A j \in 1..(i - 1) : j \in DOMAIN pending_requests

\* lines 121-122: self.request_id += 1; request_id = self.request_id
NextRequestId == request_id + 1

\* awaiting the future with no deadline: nothing ever expires
WaitForNever(c) == c

\* line 134: asyncio.wait_for(future, timeout=30.0) expiring: the future is
\* cancelled and TimeoutError is raised to the caller of request()
WaitForExpired(c) == [c EXCEPT !.outcome = "raised_timeout", !.fut = "cancelled"]

\* lines 112-117: _send.  With self.process None the attribute access raises
\* before anything is written; otherwise the frame is handed to stdin.write.
SendRaises(proc) == proc = "None"
\* a writer that puts the new frame in front of what is still buffered
SendInFront(proc, frame) == IF SendRaises(proc) THEN wire ELSE <<frame>> \o wire
Send(proc, frame) == IF SendRaises(proc) THEN wire ELSE Append(wire, frame)

\* lines 119-134 up to the await: allocate, register, send.  proc is the value
\* of self.process at the time of the call.
DoRequest(method, proc) ==
    LET id == NextRequestId
        k == Len(calls) + 1
    IN  /\ request_id' = id
        /\ pending_requests' = DictSet(pending_requests, id, k)
        /\ wire' = Send(proc, RequestFrame(id, method))
        /\ calls' = Append(calls,
                [id |-> id, method |-> method, fut |-> "pending", value |-> NoValue,
                 outcome |-> IF SendRaises(proc) THEN "raised_send" ELSE "waiting"])

\* a call slot is kept for the handshake while start() has not issued it yet
SlotsLeft == MaxCalls - Len(calls) - (IF startPc \in {"idle", "spawning"} THEN 1 ELSE 0)

\* a collaborator calls request(method, params)
Request ==
    /\ daemon = "up"
    /\ SlotsLeft > 0
    /\ DoRequest("query", process)
    /\ UNCHANGED <<process, read_task, initialized, diagnostics, stdout, serverMsgs,
                   read_errors, startPc, stopPc, pendingAtStop, daemon>>
    /\ UNCHANGED <<stops, daemonVars, codec>>

\* a timeout that is treated as fatal to the connection
TimeoutTearsDown(k) ==
    /\ daemon = "up"
    /\ k \in CallIdx
    /\ Waiting(k)
    /\ calls' = [calls EXCEPT ![k] = WaitForExpired(calls[k])]
    /\ read_task' = CancelReadTask(read_task)
    /\ process' = IF process = "running" THEN "terminating" ELSE process
    /\ UNCHANGED <<request_id, pending_requests, initialized, diagnostics, wire, stdout,
                   serverMsgs, read_errors, startPc, stopPc, pendingAtStop, daemon>>
    /\ UNCHANGED <<stops, daemonVars, codec>>

\* a timeout that fails every call in flight
TimeoutFailsAll(k) ==
    /\ daemon = "up"
    /\ k \in CallIdx
    /\ Waiting(k)
    /\ calls' = [j \in CallIdx |->
                    IF Waiting(j) THEN WaitForExpired(calls[j]) ELSE calls[j]]
    /\ UNCHANGED <<process, request_id, pending_requests, read_task, initialized,
                   diagnostics, wire, stdout, serverMsgs, read_errors, startPc, stopPc,
                   pendingAtStop, daemon>>
    /\ UNCHANGED <<stops, daemonVars, codec>>

\* the 30 s timer of wait_for fires for call k
Timeout(k) ==
    /\ daemon = "up"
    /\ k \in CallIdx
    /\ Waiting(k)
    /\ calls' = [calls EXCEPT ![k] = WaitForExpired(calls[k])]
    /\ UNCHANGED <<process, request_id, pending_requests, read_task, initialized,
                   diagnostics, wire, stdout, serverMsgs, read_errors, startPc, stopPc,
                   pendingAtStop, daemon>>
    /\ UNCHANGED <<stops, daemonVars, codec>>

\* ---------------------------------------------------------- LSPClient._read_loop
\* routing by position: a response completes the oldest registered call
RouteKeyOldest(msg) ==
    IF msg.id = NoId \/ DOMAIN pending_requests = {} THEN msg.id
    ELSE CHOOSE i \in DOMAIN pending_requests : \A j \in DOMAIN pending_requests : i <= j

\* lines 95-96: the key under which the future is looked up and popped
RouteKey(msg) == msg.id

\* line 95: "id" in message and message["id"] in self.pending_requests
IsRoutable(msg) == msg.id # NoId /\ RouteKey(msg) \in DOMAIN pending_requests

\* line 100: message.get("result")
ResultValue(msg) ==
    [for |-> msg.payload.for, kind |-> msg.payload.kind, code |-> "none", message |-> "none"]

\* line 98: Exception(message["error"].get("message", "LSP error"))
ExceptionValue(msg) ==
    [for |-> msg.id, kind |-> "error", code |-> "none", message |-> msg.error.message]

\* lines 97-100: future.set_exception / future.set_result on a pending future
SetFuture(c, msg) ==
    IF msg.error = NoError
    THEN [c EXCEPT !.fut = "result", !.value = ResultValue(msg),
                   !.outcome = IF c.outcome = "waiting" THEN "returned" ELSE c.outcome]
    ELSE [c EXCEPT !.fut = "exception", !.value = ExceptionValue(msg),
                   !.outcome = IF c.outcome = "waiting" THEN "raised_error" ELSE c.outcome]

\* set_result / set_exception raise InvalidStateError on a future that is
\* already done or cancelled
SetFutureRaises(c) == c.fut # "pending"

\* line 101: the message is a publishDiagnostics notification
IsPublish(msg) == msg.method = "textDocument/publishDiagnostics"

\* dict.setdefault: the first payload stored for a uri is kept
StoreDiagnosticsFirstWins(d, msg) ==
    IF d[msg.uri] = "absent" THEN [d EXCEPT ![msg.uri] = msg.payload.kind] ELSE d

\* lines 103-105: self._diagnostics[uri] = params.get("diagnostics", [])
StoreDiagnostics(d, msg) == [d EXCEPT ![msg.uri] = msg.payload.kind]

\* the decoded JSON value is an object (a dict); for a list, a number or a
\* string the tests of lines 95 and 101 raise
IsObject(msg) == msg.payload.kind # "non_object"

\* line 98: message["error"].get raises when the member is not an object
ErrorGetRaises(msg) == msg.error = NullError

\* an exception handler that ends the loop
AfterReadErrorStops(t) == "returned"

\* lines 109-110: except Exception prints the error and the loop goes on
AfterReadError(t) == t

\* lines 94-110: the decoded message is dispatched
Dispatch(msg) ==
    IF ~IsObject(msg)
    THEN /\ read_errors' = read_errors + 1
         /\ read_task' = AfterReadError(read_task)
         /\ UNCHANGED <<pending_requests, calls, diagnostics>>
    ELSE IF IsRoutable(msg)
    THEN LET key == RouteKey(msg)
             k == pending_requests[key]
         IN  /\ pending_requests' = DictPop(pending_requests, key)
             /\ IF SetFutureRaises(calls[k]) \/ ErrorGetRaises(msg)
                THEN /\ read_errors' = read_errors + 1
                     /\ read_task' = AfterReadError(read_task)
                     /\ calls' = calls
                ELSE /\ read_errors' = read_errors
                     /\ read_task' = read_task
                     /\ calls' = [calls EXCEPT ![k] = SetFuture(calls[k], msg)]
             /\ diagnostics' = diagnostics
    ELSE IF IsPublish(msg)
    THEN /\ diagnostics' = StoreDiagnostics(diagnostics, msg)
         /\ UNCHANGED <<pending_requests, calls, read_errors, read_task>>
    ELSE UNCHANGED <<pending_requests, calls, read_errors, diagnostics, read_task>>

\* lines 76-105: one frame is read from stdout and dispatched
ReadLoopStep ==
    /\ daemon = "up"
    /\ read_task = "running"
    /\ stdout # <<>>
    /\ stdout' = Tail(stdout)
    /\ Dispatch(Head(stdout))
    /\ UNCHANGED <<process, request_id, initialized, wire, serverMsgs,
                   startPc, stopPc, pendingAtStop, daemon>>
    /\ UNCHANGED <<stops, daemonVars, codec>>

\* lines 79-81: read(1) returns b"" at end of stream and the loop returns
ReadLoopEof ==
    /\ daemon = "up"
    /\ read_task = "running"
    /\ stdout = <<>>
    /\ process = "dead"
    /\ read_task' = "returned"
    /\ UNCHANGED <<process, request_id, calls, pending_requests, initialized,
                   diagnostics, wire, stdout, serverMsgs, read_errors, startPc, stopPc,
                   pendingAtStop, daemon>>
    /\ UNCHANGED <<stops, daemonVars, codec>>

\* ------------------------------------------------------------- LSPClient.start
\* the call whose request is the handshake (line 42)
HandshakeCall == CHOOSE k \in CallIdx : calls[k].method = "initialize"

\* start() going on without awaiting the handshake call
HandshakeNotAwaited == TRUE

\* line 42: "await self.request(...)" lets start() go on only once the
\* handshake call has finished, with a result or with an exception
HandshakeAwaited == ~Waiting(HandshakeCall)

\* line 31: start() is entered and suspends in create_subprocess_exec
StartBegin ==
    /\ daemon = "up"
    /\ startPc = "idle"
    /\ startPc' = "spawning"
    /\ UNCHANGED <<process, request_id, calls, pending_requests, read_task, initialized,
                   diagnostics, wire, stdout, serverMsgs, read_errors, stopPc,
                   pendingAtStop, daemon>>
    /\ UNCHANGED <<stops, daemonVars, codec>>

\* lines 31-57: the child exists; the read task is created and the initialize
\* request is registered and written, all before the next await
StartSpawned ==
    /\ daemon = "up"
    /\ startPc = "spawning"
    /\ process' = "running"
    /\ read_task' = "running"
    /\ DoRequest("initialize", "running")
    /\ startPc' = "handshake"
    /\ UNCHANGED <<initialized, diagnostics, stdout, serverMsgs, read_errors, stopPc,
                   pendingAtStop, daemon>>
    /\ UNCHANGED <<stops, daemonVars, codec>>

\* line 31: create_subprocess_exec raises (no pyright-langserver to run)
StartSpawnFails ==
    /\ daemon = "up"
    /\ startPc = "spawning"
    /\ startPc' = "failed"
    /\ UNCHANGED <<process, request_id, calls, pending_requests, read_task, initialized,
                   diagnostics, wire, stdout, serverMsgs, read_errors, stopPc,
                   pendingAtStop, daemon>>
    /\ UNCHANGED <<stops, daemonVars, codec>>

\* lines 42-62: start() resumes after the handshake call.  An exception of
\* request() leaves start() at once; otherwise the initialized notification
\* is written and the flag is set.
StartResume ==
    /\ daemon = "up"
    /\ startPc = "handshake"
    /\ HandshakeAwaited
    /\ IF calls[HandshakeCall].outcome \in Failures
       THEN /\ startPc' = "failed"
            /\ UNCHANGED <<wire, initialized>>
       ELSE /\ wire' = Send(process, NotificationFrame("initialized"))
            /\ initialized' = TRUE
            /\ startPc' = "done"
    /\ UNCHANGED <<process, request_id, calls, pending_requests, read_task, diagnostics,
                   stdout, serverMsgs, read_errors, stopPc, pendingAtStop, daemon>>
    /\ UNCHANGED <<stops, daemonVars, codec>>

\* daemon.py lines 242-247: AgentsIDEDaemon.start catches the exception of
\* lsp_client.start() and calls sys.exit(1); stop() is not called.  SystemExit
\* leaves asyncio.run, which cancels every task of the loop; the child
\* process is not signalled.
DaemonExit ==
    /\ daemon = "up"
    /\ startPc = "failed"
    /\ daemon' = "exited"
    /\ read_task' = IF read_task = "running" THEN "cancelled" ELSE read_task
    /\ calls' = [k \in CallIdx |->
                    IF Waiting(k)
                    THEN [calls[k] EXCEPT !.outcome = "cancelled", !.fut = "cancelled"]
                    ELSE calls[k]]
    /\ UNCHANGED <<process, request_id, pending_requests, initialized, diagnostics, wire,
                   stdout, serverMsgs, read_errors, startPc, stopPc, pendingAtStop>>
    /\ UNCHANGED <<stops, daemonVars, codec>>

\* -------------------------------------------------------------- LSPClient.stop
\* lines 64-70 up to the await.  terminate() on a child that already exited
\* either does nothing or raises ProcessLookupError, depending on whether the
\* loop has reaped the child yet.
Stop ==
    /\ daemon = "up"
    /\ stopPc = "idle"
    /\ stops' = stops + 1
    /\ pendingAtStop' = WaitingCalls
    /\ read_task' = CancelReadTask(read_task)
    /\ \/ /\ process = "None"
          /\ stopPc' = "done"
          /\ process' = process
       \/ /\ process = "running"
          /\ process' = "terminating"
          /\ stopPc' = "waiting"
       \/ /\ process \in {"terminating", "dead"}
          /\ process' = process
          /\ stopPc' \in {"waiting", "raised"}
    /\ UNCHANGED <<request_id, calls, pending_requests, initialized, diagnostics, wire,
                   stdout, serverMsgs, read_errors, startPc, daemon>>
    /\ UNCHANGED <<daemonVars, codec>>

\* lines 64-70 up to the await, for a call made after an earlier stop() has
\* finished.  terminate() does nothing while the transport still holds the
\* exited child, and raises ProcessLookupError once the loop has reaped it
\* and the transport has dropped its handle.
StopAgain ==
    /\ daemon = "up"
    /\ stopPc \in {"done", "raised"}
    /\ stops < MaxStops
    /\ stops' = stops + 1
    /\ pendingAtStop' = pendingAtStop \cup WaitingCalls
    /\ read_task' = CancelReadTask(read_task)
    /\ \/ /\ process = "None"
          /\ stopPc' = "done"
          /\ process' = process
       \/ /\ process \in {"running", "terminating"}
          /\ process' = "terminating"
          /\ stopPc' = "waiting"
       \/ /\ process = "dead"
          /\ process' = process
          /\ stopPc' \in {"waiting", "raised"}
    /\ UNCHANGED <<request_id, calls, pending_requests, initialized, diagnostics, wire,
                   stdout, serverMsgs, read_errors, startPc, daemon>>
    /\ UNCHANGED <<daemonVars, codec>>

\* line 70: process.wait() returns once the child has exited
StopReturns ==
    /\ daemon = "up"
    /\ stopPc = "waiting"
    /\ process = "dead"
    /\ stopPc' = "done"
    /\ UNCHANGED <<process, request_id, calls, pending_requests, read_task, initialized,
                   diagnostics, wire, stdout, serverMsgs, read_errors, startPc,
                   pendingAtStop, daemon>>
    /\ UNCHANGED <<stops, daemonVars, codec>>

\* ------------------------------------------------------- the language server
\* the child exits: killed from outside, crashed, or after SIGTERM
ProcessExits ==
    /\ process \in {"running", "terminating"}
    /\ process' = "dead"
    /\ UNCHANGED <<request_id, calls, pending_requests, read_task, initialized,
                   diagnostics, wire, stdout, serverMsgs, read_errors, startPc, stopPc,
                   pendingAtStop, daemon>>
    /\ UNCHANGED <<stops, daemonVars, codec>>

\* the child writes to the pipe the daemon reads; the pipe needs its reader
ServerCanWrite ==
    /\ process = "running"
    /\ daemon = "up"
    /\ serverMsgs < MaxServerMsgs
    /\ Len(stdout) < MaxUnread

\* the server answers a request it has received, in any order, with a result
\* or with an error object
ServerResponds ==
    /\ ServerCanWrite
    /\ \E id \in RequestIdsOnWire, kind \in {"result", "error"} :
          stdout' = Append(stdout, ResponseMsg(id, kind))
    /\ serverMsgs' = serverMsgs + 1
    /\ UNCHANGED <<process, request_id, calls, pending_requests, read_task, initialized,
                   diagnostics, wire, read_errors, startPc, stopPc, pendingAtStop, daemon>>
    /\ UNCHANGED <<stops, daemonVars, codec>>

\* the server pushes a publishDiagnostics notification for a document of U
PublishFor(U) ==
    /\ ServerCanWrite
    /\ \E uri \in U, d \in DiagPayloads :
          stdout' = Append(stdout, DiagnosticsMsg(uri, d))
    /\ serverMsgs' = serverMsgs + 1
    /\ UNCHANGED <<process, request_id, calls, pending_requests, read_task, initialized,
                   diagnostics, wire, read_errors, startPc, stopPc, pendingAtStop, daemon>>
    /\ UNCHANGED <<stops, daemonVars, codec>>

\* the server pushes diagnostics for the document the session works on
ServerPublishes == PublishFor({"file:///a.py"})

\* the server pushes diagnostics for any document of the workspace
ServerPublishesAny == PublishFor(Uris)

\* ------------------------------------------------------------ frame encoding
\* Text is a sequence of Unicode code points, bytes a sequence of 0..255.

\* concatenation of the sequences f[1], ..., f[n]
RECURSIVE Flatten(_)
Flatten(f) == IF f = <<>> THEN <<>> ELSE Head(f) \o Flatten(Tail(f))

\* str(n) for n >= 0
RECURSIVE Digits(_)
Digits(n) == IF n < 10 THEN <<48 + n>> ELSE Digits(n \div 10) \o <<48 + (n % 10)>>

\* one lower-case hexadecimal digit, and the six characters of \uXXXX
HexDigit(n) == IF n < 10 THEN 48 + n ELSE 87 + n
UEscape(n) ==
    <<92, 117, HexDigit(n \div 4096), HexDigit((n \div 256) % 16),
      HexDigit((n \div 16) % 16), HexDigit(n % 16)>>

\* json.dumps(..., ensure_ascii=False): characters above 127 are copied
EscapeCharRaw(c) ==
    IF c = 34 THEN <<92, 34>>
    ELSE IF c = 92 THEN <<92, 92>>
    ELSE IF c = 10 THEN <<92, 110>>
    ELSE IF c = 13 THEN <<92, 114>>
    ELSE IF c = 9 THEN <<92, 116>>
    ELSE IF c < 32 THEN UEscape(c)
    ELSE <<c>>

\* json.dumps of one character of a str (ensure_ascii=True, the default):
\* everything outside ' '..'~' is escaped, astral characters as a surrogate pair
EscapeChar(c) ==
    IF c = 34 THEN <<92, 34>>
    ELSE IF c = 92 THEN <<92, 92>>
    ELSE IF c = 10 THEN <<92, 110>>
    ELSE IF c = 13 THEN <<92, 114>>
    ELSE IF c = 9 THEN <<92, 116>>
    ELSE IF c >= 32 /\ c <= 126 THEN <<c>>
    ELSE IF c < 65536 THEN UEscape(c)
    ELSE UEscape(55296 + ((c - 65536) \div 1024)) \o UEscape(56320 + ((c - 65536) % 1024))

\* the text put between quotes as it is
DumpsStringNaive(text) == <<34>> \o text \o <<34>>

\* json.dumps of a str
DumpsString(text) == <<34>> \o Flatten([i \in 1..Len(text) |-> EscapeChar(text[i])]) \o <<34>>

\* lines 123-128 and 114: json.dumps of the request message
\*   {"jsonrpc": "2.0", "id": <id>, "method": <method>, "params": {"text": <params>}}
JsonDumps(id, method, params) ==
    <<123, 34, 106, 115, 111, 110, 114, 112, 99, 34, 58, 32, 34, 50, 46, 48, 34, 44, 32,
      34, 105, 100, 34, 58, 32>>
    \o Digits(id)
    \o <<44, 32, 34, 109, 101, 116, 104, 111, 100, 34, 58, 32>>
    \o DumpsString(method)
    \o <<44, 32, 34, 112, 97, 114, 97, 109, 115, 34, 58, 32, 123, 34, 116, 101, 120, 116,
         34, 58, 32>>
    \o DumpsString(params)
    \o <<125, 125>>

\* str.encode(): UTF-8
Utf8Char(c) ==
    IF c < 128 THEN <<c>>
    ELSE IF c < 2048 THEN <<192 + (c \div 64), 128 + (c % 64)>>
    ELSE IF c < 65536 THEN <<224 + (c \div 4096), 128 + ((c \div 64) % 64), 128 + (c % 64)>>
    ELSE <<240 + (c \div 262144), 128 + ((c \div 4096) % 64), 128 + ((c \div 64) % 64),
           128 + (c % 64)>>
Utf8Encode(text) == Flatten([i \in 1..Len(text) |-> Utf8Char(text[i])])

\* line 115: f"Content-Length: {len(content)}\r\n\r\n", len counting characters
HeaderText(content) ==
    <<67, 111, 110, 116, 101, 110, 116, 45, 76, 101, 110, 103, 116, 104, 58, 32>>
    \o Digits(Len(content)) \o <<13, 10, 13, 10>>

\* ------------------------------------------------------------ frame decoding
\* lines 77-82: the header is read one byte at a time until it holds
\* b"\r\n\r\n"; the number of bytes read (0 when the stream ends first)
HeaderEnd(stream) ==
    LET ends == {n \in 4..Len(stream) : SubSeq(stream, n - 3, n) = <<13, 10, 13, 10>>}
    IN  IF ends = {} THEN 0 ELSE CHOOSE n \in ends : \A m \in ends : n <= m

\* number of bytes of the UTF-8 sequence introduced by the byte h (0 when h
\* introduces none)
Utf8Width(h) ==
    IF h < 128 THEN 1 ELSE IF h >= 192 /\ h < 224 THEN 2
    ELSE IF h >= 224 /\ h < 240 THEN 3 ELSE IF h >= 240 /\ h < 248 THEN 4 ELSE 0

\* bytes.decode(): UTF-8, a malformed sequence (UnicodeDecodeError) giving -1.
\* A long input is cut at a character boundary near its middle and the halves
\* are decoded one after the other.
RECURSIVE Utf8Decode(_)
Utf8Decode(b) ==
    IF b = <<>> THEN <<>>
    ELSE IF Len(b) > 8
    THEN LET mid == (Len(b) \div 2) + 1
             cuts == {i \in mid..(mid + 3) : b[i] < 128 \/ b[i] >= 192}
         IN  IF cuts = {} THEN <<-1>>
             ELSE LET m == CHOOSE i \in cuts : \A j \in cuts : i <= j
                  IN  Utf8Decode(SubSeq(b, 1, m - 1)) \o Utf8Decode(SubSeq(b, m, Len(b)))
    ELSE LET h == Head(b)
             n == Utf8Width(h)
         IN  IF n = 0 \/ Len(b) < n \/ \E i \in 2..n : b[i] < 128 \/ b[i] >= 192
             THEN <<-1>>
             ELSE LET c == IF n = 1 THEN h
                           ELSE IF n = 2 THEN (h - 192) * 64 + (b[2] - 128)
                           ELSE IF n = 3
                           THEN (h - 224) * 4096 + (b[2] - 128) * 64 + (b[3] - 128)
                           ELSE (h - 240) * 262144 + (b[2] - 128) * 4096
                                + (b[3] - 128) * 64 + (b[4] - 128)
                  IN  <<c>> \o Utf8Decode(SubSeq(b, n + 1, Len(b)))

\* position of the first occurrence of the text sep in text at or after pos
\* (0 when there is none)
Find(text, sep, pos) ==
    LET at == {i \in pos..(Len(text) - Len(sep) + 1) :
                  SubSeq(text, i, i + Len(sep) - 1) = sep}
    IN  IF at = {} THEN 0 ELSE CHOOSE i \in at : \A j \in at : i <= j

\* str.split(sep)
RECURSIVE Split(_, _)
Split(text, sep) ==
    LET i == Find(text, sep, 1)
    IN  IF i = 0 THEN <<text>>
        ELSE <<SubSeq(text, 1, i - 1)>> \o Split(SubSeq(text, i + Len(sep), Len(text)), sep)

\* str.startswith(prefix)
StartsWith(text, prefix) ==
    Len(text) >= Len(prefix) /\ SubSeq(text, 1, Len(prefix)) = prefix

\* str.strip(): white space removed at both ends
IsSpace(c) == c \in {32, 9, 10, 11, 12, 13}
RECURSIVE Strip(_)
Strip(text) ==
    IF text = <<>> THEN text
    ELSE IF IsSpace(Head(text)) THEN Strip(Tail(text))
    ELSE IF IsSpace(text[Len(text)]) THEN Strip(SubSeq(text, 1, Len(text) - 1))
    ELSE text

\* int(text) for a decimal numeral; -1 stands for ValueError
RECURSIVE ParseInt(_)
ParseInt(text) ==
    IF text = <<>> \/ \E i \in 1..Len(text) : text[i] < 48 \/ text[i] > 57 THEN -1
    ELSE IF Len(text) = 1 THEN text[1] - 48
    ELSE ParseInt(SubSeq(text, 1, Len(text) - 1)) * 10 + (text[Len(text)] - 48)

\* lines 85-88: content_length = 0, then for every line of the header that
\* starts with "Content-Length:": int(line.split(":")[1].strip())
RECURSIVE ContentLengthOf(_, _)
ContentLengthOf(lines, content_length) ==
    IF lines = <<>> THEN content_length
    ELSE LET line == Head(lines)
         IN  IF StartsWith(line, <<67, 111, 110, 116, 101, 110, 116, 45, 76, 101, 110,
                                   103, 116, 104, 58>>)
             THEN ContentLengthOf(Tail(lines), ParseInt(Strip(Split(line, <<58>>)[2])))
             ELSE ContentLengthOf(Tail(lines), content_length)
ContentLength(header) == ContentLengthOf(Split(Utf8Decode(header), <<13, 10>>), 0)

\* value of a hexadecimal digit (-1 when the character is none)
HexVal(d) ==
    IF d >= 48 /\ d <= 57 THEN d - 48
    ELSE IF d >= 97 /\ d <= 102 THEN d - 87
    ELSE IF d >= 65 /\ d <= 70 THEN d - 55
    ELSE -1

\* the code unit of the escape \uXXXX whose backslash stands at pos (-1 when
\* the text holds no such escape there)
UnitAt(text, pos) ==
    IF pos + 5 > Len(text) \/ text[pos] # 92 \/ text[pos + 1] # 117
       \/ \E i \in 2..5 : HexVal(text[pos + i]) = -1
    THEN -1
    ELSE HexVal(text[pos + 2]) * 4096 + HexVal(text[pos + 3]) * 256
         + HexVal(text[pos + 4]) * 16 + HexVal(text[pos + 5])

\* json.loads of the characters of a string literal, from pos (the character
\* after the opening quote) to the closing quote; acc is the text so far
RECURSIVE ScanString(_, _, _)
ScanString(text, pos, acc) ==
    IF pos > Len(text) THEN [ok |-> FALSE, value |-> acc, next |-> pos]
    ELSE LET c == text[pos]
         IN  IF c = 34 THEN [ok |-> TRUE, value |-> acc, next |-> pos + 1]
             ELSE IF c < 32 THEN [ok |-> FALSE, value |-> acc, next |-> pos]
             ELSE IF c # 92 THEN ScanString(text, pos + 1, Append(acc, c))
             ELSE IF pos + 1 > Len(text) THEN [ok |-> FALSE, value |-> acc, next |-> pos]
             ELSE LET e == text[pos + 1]
                      u == UnitAt(text, pos)
                      v == UnitAt(text, pos + 6)
                  IN  IF e \in {34, 92, 47} THEN ScanString(text, pos + 2, Append(acc, e))
                      ELSE IF e = 110 THEN ScanString(text, pos + 2, Append(acc, 10))
                      ELSE IF e = 114 THEN ScanString(text, pos + 2, Append(acc, 13))
                      ELSE IF e = 116 THEN ScanString(text, pos + 2, Append(acc, 9))
                      ELSE IF e = 98 THEN ScanString(text, pos + 2, Append(acc, 8))
                      ELSE IF e = 102 THEN ScanString(text, pos + 2, Append(acc, 12))
                      ELSE IF u = -1 THEN [ok |-> FALSE, value |-> acc, next |-> pos]
                      ELSE IF u >= 55296 /\ u <= 56319 /\ v >= 56320 /\ v <= 57343
                      THEN ScanString(text, pos + 12,
                                      Append(acc, 65536 + (u - 55296) * 1024 + (v - 56320)))
                      ELSE ScanString(text, pos + 6, Append(acc, u))

\* a string literal that starts at pos
ParseString(text, pos) ==
    IF pos > Len(text) \/ text[pos] # 34
    THEN [ok |-> FALSE, value |-> <<>>, next |-> pos]
    ELSE ScanString(text, pos + 1, <<>>)

\* the text holds lit at pos
Matches(text, pos, lit) ==
    pos + Len(lit) - 1 <= Len(text) /\ SubSeq(text, pos, pos + Len(lit) - 1) = lit

\* the position after the digits that start at pos
RECURSIVE DigitsEnd(_, _)
DigitsEnd(text, pos) ==
    IF pos <= Len(text) /\ text[pos] >= 48 /\ text[pos] <= 57
    THEN DigitsEnd(text, pos + 1) ELSE pos

\* line 92: json.loads of a request message, read back into id, method and
\* params; ok is FALSE where json.loads raises
JsonLoads(text) ==
    LET p1 == <<123, 34, 106, 115, 111, 110, 114, 112, 99, 34, 58, 32, 34, 50, 46, 48, 34,
                44, 32, 34, 105, 100, 34, 58, 32>>
        p2 == <<44, 32, 34, 109, 101, 116, 104, 111, 100, 34, 58, 32>>
        p3 == <<44, 32, 34, 112, 97, 114, 97, 109, 115, 34, 58, 32, 123, 34, 116, 101, 120,
                116, 34, 58, 32>>
        a == 1 + Len(p1)
        b == DigitsEnd(text, a)
        m == ParseString(text, b + Len(p2))
        q == ParseString(text, m.next + Len(p3))
    IN  IF /\ Matches(text, 1, p1)
           /\ b > a
           /\ Matches(text, b, p2)
           /\ m.ok
           /\ Matches(text, m.next, p3)
           /\ q.ok
           /\ Matches(text, q.next, <<125, 125>>)
           /\ \A i \in (q.next + 2)..Len(text) : text[i] \in {32, 9, 10, 13}
        THEN [ok |-> TRUE, id |-> ParseInt(SubSeq(text, a, b - 1)), method |-> m.value,
              params |-> q.value]
        ELSE NoMessage

\* ------------------------------------------------------------- specification
Next ==
    \/ Request
    \/ \E k \in 1..MaxCalls : Timeout(k)
    \/ ReadLoopStep
    \/ ReadLoopEof
    \/ StartBegin
    \/ StartSpawned
    \/ StartSpawnFails
    \/ StartResume
    \/ DaemonExit
    \/ Stop
    \/ StopReturns
    \/ ProcessExits
    \/ ServerResponds
    \/ ServerPublishes

Spec == Init /\ [][Next]_vars

\* The event loop keeps running its timers and ready callbacks: an expired
\* wait_for is delivered, and a resumable coroutine is resumed.
FairSpec ==
    /\ Spec
    /\ \A k \in 1..MaxCalls : WF_vars(Timeout(k))

\* stop() may be called again once it has finished
StopNext ==
    \/ Next
    \/ StopAgain

StopSpec == Init /\ [][StopNext]_vars

\* ------------------------------------------- the client as the daemon drives it
\* daemon.py lines 9015-9019: run() awaits self.start(), which returns only
\* when lsp_client.start() has returned, before it starts the HTTP site
SiteCanStartEarly == TRUE
SiteCanStart == startPc = "done"

SiteStart ==
    /\ daemon = "up"
    /\ http = "down"
    /\ stopPc = "idle"
    /\ SiteCanStart
    /\ http' = "up"
    /\ UNCHANGED <<process, request_id, calls, pending_requests, read_task, initialized,
                   diagnostics, wire, stdout, serverMsgs, read_errors, startPc, stopPc,
                   pendingAtStop, daemon, stops, indexed, reader, codec, host>>

\* lsp.py lines 146-162: open_file.  A file that cannot be read makes it
\* return the error text without writing anything; otherwise one didOpen
\* notification for the file's uri is written.
OpenFile(w, uri, readable) == IF readable THEN Append(w, DidOpenFrame(uri)) ELSE w

\* daemon.py lines 267-271: _ensure_indexed calls open_file for a path that is
\* not in _indexed_files and adds the path, whatever open_file returned
EnsureIndexed(w, uri, readable) ==
    IF uri \notin indexed THEN OpenFile(w, uri, readable) ELSE w

\* a handler can be running: the site is up and the client has its process
\* (without one, notify raises and the handler answers 500)
HandlerCanRun == daemon = "up" /\ http = "up" /\ ~SendRaises(process)

\* number of handler invocations left in one behaviour: every request and
\* every get_diagnostics call takes one of the MaxCalls slots
HandlerSlotsLeft == SlotsLeft - reader.n

\* daemon.py lines 7796-7825 and lsp.py lines 164-173: handle_definition runs
\* _ensure_indexed, then get_definition opens the file again and issues the
\* request; nothing suspends before the request is registered and written
HandleDefinition ==
    /\ HandlerCanRun
    /\ HandlerSlotsLeft > 0
    /\ \E uri \in Uris, r1, r2 \in BOOLEAN :
          LET id == NextRequestId
              w == OpenFile(EnsureIndexed(wire, uri, r1), uri, r2)
          IN  /\ request_id' = id
              /\ pending_requests' = DictSet(pending_requests, id, Len(calls) + 1)
              /\ wire' = Append(w, DocRequestFrame(id, "textDocument/definition", uri))
              /\ calls' = Append(calls,
                      [id |-> id, method |-> "textDocument/definition", fut |-> "pending",
                       value |-> NoValue, outcome |-> "waiting"])
              /\ indexed' = indexed \cup {uri}
    /\ UNCHANGED <<process, read_task, initialized, diagnostics, stdout, serverMsgs,
                   read_errors, startPc, stopPc, pendingAtStop, daemon, stops, http,
                   reader, codec, host>>

\* daemon.py lines 7903-7934 and lsp.py lines 210-214: handle_diagnostics runs
\* _ensure_indexed, then get_diagnostics opens the file and goes to sleep
HandleDiagnostics ==
    /\ HandlerCanRun
    /\ reader.pc \in {"idle", "done"}
    /\ HandlerSlotsLeft > 0
    /\ \E uri \in Uris, r1, r2 \in BOOLEAN :
          /\ wire' = OpenFile(EnsureIndexed(wire, uri, r1), uri, r2)
          /\ indexed' = indexed \cup {uri}
          /\ reader' = [pc |-> "sleeping", uri |-> uri, result |-> "none",
                        n |-> reader.n + 1]
    /\ UNCHANGED <<process, request_id, calls, pending_requests, read_task, initialized,
                   diagnostics, stdout, serverMsgs, read_errors, startPc, stopPc,
                   pendingAtStop, daemon, stops, http, codec, host>>

\* a lookup that never finds anything
LookupNothing(d, uri) == "absent"

\* lsp.py line 216: self._diagnostics.get(uri, [])
Lookup(d, uri) == d[uri]

\* lsp.py lines 215-216: the sleep is over and the stored value is returned
GetDiagnosticsReturn ==
    /\ daemon = "up"
    /\ reader.pc = "sleeping"
    /\ reader' = [reader EXCEPT !.pc = "done", !.result = Lookup(diagnostics, reader.uri)]
    /\ UNCHANGED <<process, request_id, calls, pending_requests, read_task, initialized,
                   diagnostics, wire, stdout, serverMsgs, read_errors, startPc, stopPc,
                   pendingAtStop, daemon, stops, http, indexed, codec, host>>

\* daemon.py lines 9021-9028: run() is cancelled and its finally block calls
\* self.stop(), which stops the client
DaemonStop ==
    /\ http = "up"
    /\ Stop

\* daemon.py line 9029: runner.cleanup() after stop() (an exception of stop()
\* ends the process, and the site with it)
SiteCleanup ==
    /\ http = "up"
    /\ stopPc \in {"done", "raised"}
    /\ http' = "down"
    /\ UNCHANGED <<process, request_id, calls, pending_requests, read_task, initialized,
                   diagnostics, wire, stdout, serverMsgs, read_errors, startPc, stopPc,
                   pendingAtStop, daemon, stops, indexed, reader, codec, host>>

DaemonNext ==
    \/ StartBegin
    \/ StartSpawned
    \/ StartSpawnFails
    \/ StartResume
    \/ DaemonExit
    \/ SiteStart
    \/ HandleDefinition
    \/ HandleDiagnostics
    \/ GetDiagnosticsReturn
    \/ \E k \in 1..MaxCalls : Timeout(k)
    \/ ReadLoopStep
    \/ ReadLoopEof
    \/ ProcessExits
    \/ ServerResponds
    \/ ServerPublishes
    \/ DaemonStop
    \/ StopReturns
    \/ SiteCleanup

DaemonSpec == Init /\ [][DaemonNext]_vars

\* ------------------------------------------ the read loop on a byte stream
\* The child has written a finite stream to its stdout and closed it; the
\* loop reads it while the initialize call is pending.

\* the body of a result response, {"jsonrpc": "2.0", "id": <id>, "result": null}
ResponseText(id) ==
    <<123, 34, 106, 115, 111, 110, 114, 112, 99, 34, 58, 32, 34, 50, 46, 48, 34, 44, 32,
      34, 105, 100, 34, 58, 32>>
    \o Digits(id)
    \o <<44, 32, 34, 114, 101, 115, 117, 108, 116, 34, 58, 32, 110, 117, 108, 108, 125>>

\* line 92: json.loads of a body the server wrote.  Of the bodies that occur
\* in the streams below only a result response is a JSON text; for the others
\* (an empty body, "{]", parts of headers) json.loads raises.
LoadsMessage(text) ==
    LET p1 == <<123, 34, 106, 115, 111, 110, 114, 112, 99, 34, 58, 32, 34, 50, 46, 48, 34,
                44, 32, 34, 105, 100, 34, 58, 32>>
        p2 == <<44, 32, 34, 114, 101, 115, 117, 108, 116, 34, 58, 32, 110, 117, 108, 108,
                125>>
        a == 1 + Len(p1)
        b == DigitsEnd(text, a)
    IN  IF /\ Matches(text, 1, p1)
           /\ b > a
           /\ Matches(text, b, p2)
           /\ b + Len(p2) - 1 = Len(text)
        THEN [ok |-> TRUE, msg |-> ResponseMsg(ParseInt(SubSeq(text, a, b - 1)), "result")]
        ELSE [ok |-> FALSE, msg |-> ResponseMsg(NoId, "result")]

\* a well-formed frame carrying the response to the initialize call
GoodFrame == Utf8Encode(HeaderText(ResponseText(1))) \o Utf8Encode(ResponseText(1))
\* "X-Id: 7\r\n\r\n": a header without Content-Length
NoLengthFrame == <<88, 45, 73, 100, 58, 32, 55, 13, 10, 13, 10>>
\* "Content-Length: ?\r\n\r\n{}": a length that is no number
BadLengthFrame ==
    <<67, 111, 110, 116, 101, 110, 116, 45, 76, 101, 110, 103, 116, 104, 58, 32, 63, 13, 10,
      13, 10, 123, 125>>
\* "Content-Length: 2\r\n\r\n{]": a body that is no JSON text
BadJsonFrame ==
    <<67, 111, 110, 116, 101, 110, 116, 45, 76, 101, 110, 103, 116, 104, 58, 32, 50, 13, 10,
      13, 10, 123, 93>>

\* the streams made of up to MaxFrames frames of F
StreamsOf(F) == {Flatten(fs) : fs \in UNION {[1..n -> F] : n \in 0..MaxFrames}}
\* the streams of S cut off at any byte: the child may die at any point
Cuts(S) == UNION {{SubSeq(st, 1, n) : n \in 0..Len(st)} : st \in S}
WholeStreams == StreamsOf({GoodFrame, NoLengthFrame, BadLengthFrame, BadJsonFrame})
CleanCuts == Cuts(StreamsOf({GoodFrame}))
Streams == Cuts(WholeStreams)

\* the session after lines 31-57 of start(): child running, read task
\* created, the initialize request registered and written
StreamInit ==
    /\ process = "running"
    /\ request_id = 1
    /\ calls = <<[id |-> 1, method |-> "initialize", fut |-> "pending", value |-> NoValue,
                  outcome |-> "waiting"]>>
    /\ pending_requests = DictSet(<<>>, 1, 1)
    /\ read_task = "running"
    /\ initialized = FALSE
    /\ diagnostics = [u \in Uris |-> "absent"]
    /\ wire = <<RequestFrame(1, "initialize")>>
    /\ stdout = <<>>
    /\ serverMsgs = 0
    /\ read_errors = 0
    /\ startPc = "handshake"
    /\ stopPc = "idle"
    /\ pendingAtStop = {}
    /\ daemon = "up"
    /\ stops = 0
    /\ http = "down"
    /\ indexed = {}
    /\ reader = ReaderIdle
    /\ host = HostIdle
    /\ \E st \in Streams :
          codec = [CodecOff EXCEPT !.pc = "top", !.stream = st, !.rest = st]

\* what an iteration of the loop leaves alone
loopFrame ==
    <<process, request_id, initialized, wire, stdout, serverMsgs, startPc, stopPc,
      pendingAtStop, daemon, stops, daemonVars>>

\* lines 109-110 reached from reading or parsing: the error is printed
ReadError ==
    /\ read_errors' = read_errors + 1
    /\ read_task' = AfterReadError(read_task)
    /\ UNCHANGED <<pending_requests, calls, diagnostics>>

\* lines 76-88: the header is read byte by byte, then the length is parsed.
\* An empty read (stream closed) makes the loop return.
LoopReadsHeader ==
    /\ read_task = "running"
    /\ codec.pc = "top"
    /\ LET n == HeaderEnd(codec.rest)
           after == SubSeq(codec.rest, n + 1, Len(codec.rest))
           content_length == ContentLength(SubSeq(codec.rest, 1, n))
       IN  IF n = 0
           THEN /\ read_task' = "returned"
                /\ codec' = [codec EXCEPT !.pc = "stopped", !.rest = <<>>]
                /\ UNCHANGED <<pending_requests, calls, diagnostics, read_errors>>
           ELSE IF content_length < 0
           THEN /\ ReadError
                /\ codec' = [codec EXCEPT !.rest = after]
           ELSE /\ codec' = [codec EXCEPT !.pc = "header_read", !.rest = after,
                                          !.content_length = content_length]
                /\ UNCHANGED <<pending_requests, calls, diagnostics, read_errors,
                               read_task>>
    /\ UNCHANGED loopFrame

\* lines 90-110: readexactly (IncompleteReadError when the stream ends first),
\* json.loads, dispatch
LoopReadsContent ==
    /\ read_task = "running"
    /\ codec.pc = "header_read"
    /\ LET n == codec.content_length
           m == LoadsMessage(Utf8Decode(SubSeq(codec.rest, 1, n)))
       IN  IF n > Len(codec.rest)
           THEN /\ ReadError
                /\ codec' = [codec EXCEPT !.pc = "top", !.rest = <<>>]
           ELSE /\ IF m.ok THEN Dispatch(m.msg) ELSE ReadError
                /\ codec' = [codec EXCEPT !.pc = "top",
                                          !.rest = SubSeq(codec.rest, n + 1, Len(codec.rest))]
    /\ UNCHANGED loopFrame

StreamNext ==
    \/ LoopReadsHeader
    \/ LoopReadsContent

StreamSpec == StreamInit /\ [][StreamNext]_vars

\* ------------------------------------------------------------- manager.py
\* Each manager invocation is its own OS process, so every system call of
\* start_daemon is a step other invocations can interleave with.  A daemon
\* process is "starting" until it has bound the port, "serving" while it
\* answers /health, and "exited" afterwards.

\* everything but the host
notHostVars ==
    <<process, request_id, calls, pending_requests, read_task, initialized, diagnostics,
      wire, stdout, serverMsgs, read_errors, startPc, stopPc, pendingAtStop, daemon, stops,
      http, indexed, reader, codec>>

Pids == 1..Len(host.daemons)
Alive(p) == p \in Pids /\ host.daemons[p] # "exited"

\* lines 69-75: GET /health on the port answers 200
IsHealthy == \E p \in Pids : host.daemons[p] = "serving"

\* manager m moves to pc
Goto(h, m, pc) == [h EXCEPT !.mgr[m].pc = pc]

\* lines 228-232 and 262-264: "ensure" asks is_healthy() first, "start" calls
\* start_daemon at once
ManagerRuns(m) ==
    /\ host.mgr[m].pc = "idle"
    /\ \/ host' = Goto(host, m, IF IsHealthy THEN "done" ELSE "get_pid")
       \/ host' = Goto(host, m, "get_pid")
    /\ UNCHANGED notHostVars

\* lines 50-66 and 81: get_pid() gives the PID of the file when that process
\* exists; a file naming a dead process is unlinked
GetPid(m) ==
    /\ host.mgr[m].pc = "get_pid"
    /\ LET pid == IF Alive(host.pid_file) THEN host.pid_file ELSE NoPid
       IN  host' = [host EXCEPT !.pid_file = pid,
                                !.mgr[m].pid = pid,
                                !.mgr[m].pc = IF pid # NoPid THEN "check_running"
                                              ELSE "check_port"]
    /\ UNCHANGED notHostVars

\* lines 82-84: a live PID that answers the health check: nothing to do
CheckRunning(m) ==
    /\ host.mgr[m].pc = "check_running"
    /\ host' = Goto(host, m, IF IsHealthy THEN "done" ELSE "kill_stale")
    /\ UNCHANGED notHostVars

\* lines 87-93: the process of a "stale" PID is killed
KillStale(m) ==
    /\ host.mgr[m].pc = "kill_stale"
    /\ host' = [host EXCEPT !.daemons[host.mgr[m].pid] = "exited",
                            !.mgr[m].pc = "unlink"]
    /\ UNCHANGED notHostVars

\* lines 94-97: after the sleep the PID file is unlinked, whatever it holds now
UnlinkStale(m) ==
    /\ host.mgr[m].pc = "unlink"
    /\ host' = [host EXCEPT !.pid_file = NoPid, !.mgr[m].pc = "check_port"]
    /\ UNCHANGED notHostVars

\* lines 100-102: somebody answers on the port already
CheckPort(m) ==
    /\ host.mgr[m].pc = "check_port"
    /\ host' = Goto(host, m, IF IsHealthy THEN "done" ELSE "spawn")
    /\ UNCHANGED notHostVars

\* lines 106-120: subprocess.Popen starts a daemon process
Spawn(m) ==
    /\ host.mgr[m].pc = "spawn"
    /\ host' = [host EXCEPT !.daemons = Append(host.daemons, "starting"),
                            !.mgr[m].spawned = Len(host.daemons) + 1,
                            !.mgr[m].pc = "write_pid"]
    /\ UNCHANGED notHostVars

\* lines 123-124: PID_FILE.write_text(str(process.pid))
WritePid(m) ==
    /\ host.mgr[m].pc = "write_pid"
    /\ host' = [host EXCEPT !.pid_file = host.mgr[m].spawned, !.mgr[m].pc = "waiting"]
    /\ UNCHANGED notHostVars

\* lines 128-136: the wait loop ends when the health check answers, or after
\* STARTUP_TIMEOUT seconds
WaitHealthy(m) ==
    /\ host.mgr[m].pc = "waiting"
    /\ \/ IsHealthy /\ host' = Goto(host, m, "done")
       \/ ~IsHealthy /\ host' = Goto(host, m, "failed")
    /\ UNCHANGED notHostVars

\* daemon.py lines 9015-9019: a starting daemon binds the port, which only
\* one process can hold
DaemonBinds(p) ==
    /\ p \in Pids
    /\ host.daemons[p] = "starting"
    /\ ~IsHealthy
    /\ host' = [host EXCEPT !.daemons[p] = "serving"]
    /\ UNCHANGED notHostVars

\* daemon.py lines 242-247 and 9019: the language server does not start, or
\* the port is taken: the daemon process ends
DaemonFails(p) ==
    /\ p \in Pids
    /\ host.daemons[p] = "starting"
    /\ host' = [host EXCEPT !.daemons[p] = "exited"]
    /\ UNCHANGED notHostVars

ManagerNext ==
    \/ \E m \in Managers : ManagerRuns(m)
    \/ \E m \in Managers : GetPid(m)
    \/ \E m \in Managers : CheckRunning(m)
    \/ \E m \in Managers : KillStale(m)
    \/ \E m \in Managers : UnlinkStale(m)
    \/ \E m \in Managers : CheckPort(m)
    \/ \E m \in Managers : Spawn(m)
    \/ \E m \in Managers : WritePid(m)
    \/ \E m \in Managers : WaitHealthy(m)
    \/ \E p \in 1..MaxManagers : DaemonBinds(p)
    \/ \E p \in 1..MaxManagers : DaemonFails(p)

ManagerSpec == Init /\ [][ManagerNext]_vars

\* ------------------------------------------------- the codec taken by itself
\* characters of the params text: a, ", \, newline, e-acute, the euro sign and
\* an astral character (U+1F600)
Chars == {97, 34, 92, 10, 233, 8364, 128512}
Texts == UNION {[1..n -> Chars] : n \in 0..MaxText}
\* "initialize" and "textDocument/hover"
Methods ==
    {<<105, 110, 105, 116, 105, 97, 108, 105, 122, 101>>,
     <<116, 101, 120, 116, 68, 111, 99, 117, 109, 101, 110, 116, 47, 104, 111, 118, 101,
       114>>}
CodecIds == {1, 27}
\* what follows the frame in the stream: nothing yet, or the next header's "C"
Trailing == {<<>>, <<67>>}

CodecInputs ==
    {[CodecOff EXCEPT !.pc = "input", !.id = id, !.method = method, !.params = text] :
        id \in CodecIds, method \in Methods, text \in Texts}

CodecInit ==
    /\ InitClient
    /\ codec \in CodecInputs

clientVars ==
    <<process, request_id, calls, pending_requests, read_task, initialized, diagnostics,
      wire, stdout, serverMsgs, read_errors, startPc, stopPc, pendingAtStop, daemon, stops,
      daemonVars>>

\* lines 114-116: _send builds content and header and writes both at once
SendFrame ==
    /\ codec.pc = "input"
    /\ LET content == JsonDumps(codec.id, codec.method, codec.params)
           header == HeaderText(content)
       IN  \E more \in Trailing :
              codec' = [codec EXCEPT !.pc = "written",
                                     !.header = Utf8Encode(header),
                                     !.body = Utf8Encode(content),
                                     !.rest = Utf8Encode(header) \o Utf8Encode(content)
                                              \o more]
    /\ UNCHANGED clientVars

\* lines 77-88: the read loop reads the header and parses the length
ReadHeader ==
    /\ codec.pc = "written"
    /\ LET n == HeaderEnd(codec.rest)
       IN  /\ n > 0
           /\ codec' = [codec EXCEPT !.pc = "header_read",
                                     !.content_length = ContentLength(SubSeq(codec.rest, 1, n)),
                                     !.rest = SubSeq(codec.rest, n + 1, Len(codec.rest))]
    /\ UNCHANGED clientVars

\* lines 91-92: readexactly(content_length), then json.loads(content.decode());
\* a short stream or a body that does not parse raises into the loop's handler
ReadContent ==
    /\ codec.pc = "header_read"
    /\ LET n == codec.content_length
       IN  IF n < 0 \/ n > Len(codec.rest)
           THEN codec' = [codec EXCEPT !.pc = "decoded", !.out = NoMessage]
           ELSE codec' = [codec EXCEPT !.pc = "decoded",
                                       !.out = JsonLoads(Utf8Decode(SubSeq(codec.rest, 1, n))),
                                       !.rest = SubSeq(codec.rest, n + 1, Len(codec.rest))]
    /\ UNCHANGED clientVars

CodecNext ==
    \/ SendFrame
    \/ ReadHeader
    \/ ReadContent

CodecSpec == CodecInit /\ [][CodecNext]_vars

\* the server reports on every document of the workspace
DiagNext ==
    \/ Next
    \/ ServerPublishesAny

DiagSpec == Init /\ [][DiagNext]_vars

\* ------------------------------------------- a server that sends odd shapes
\* well-framed JSON that is no object: a list, a number, a string, null
NonObjectMsg ==
    [id |-> NoId, method |-> "none", error |-> NoError,
     payload |-> [for |-> NoId, kind |-> "non_object"], uri |-> "none"]
\* a notification the client does not know
UnknownNotificationMsg ==
    [id |-> NoId, method |-> "window/logMessage", error |-> NoError,
     payload |-> [for |-> NoId, kind |-> "none"], uri |-> "none"]
\* a response whose error member is null
NullErrorMsg(id) == [ResponseMsg(id, "result") EXCEPT !.error = NullError]
\* a request of the server to the client, numbered by the server: it has a
\* method and no result
ServerRequestMsg(id) ==
    [id |-> id, method |-> "workspace/configuration", error |-> NoError,
     payload |-> [for |-> NoId, kind |-> "none"], uri |-> "none"]

OddMsgs ==
    {NonObjectMsg, UnknownNotificationMsg}
        \cup {NullErrorMsg(id) : id \in RequestIdsOnWire}
        \cup {ServerRequestMsg(id) : id \in RequestIdsOnWire}

ServerSendsOdd ==
    /\ ServerCanWrite
    /\ \E msg \in OddMsgs : stdout' = Append(stdout, msg)
    /\ serverMsgs' = serverMsgs + 1
    /\ UNCHANGED <<process, request_id, calls, pending_requests, read_task, initialized,
                   diagnostics, wire, read_errors, startPc, stopPc, pendingAtStop, daemon>>
    /\ UNCHANGED <<stops, daemonVars, codec>>

ShapeNext ==
    \/ Next
    \/ ServerSendsOdd

ShapeSpec == Init /\ [][ShapeNext]_vars

\* ------------------------------------------------------------------ claims

\* C1: whatever the order in which responses arrive, a call that returned a
\* result or raised a server error was completed by a response that carried
\* the id its own request was sent with.
RoutingById ==
    \A k \in CallIdx :
        calls[k].outcome \in {"returned", "raised_error"} =>
            calls[k].value.for = calls[k].id

\* two requests are on the wire and the later one has its result while the
\* earlier one is still suspended
RoutingReordered ==
    \E j, k \in CallIdx :
        /\ calls[j].id < calls[k].id
        /\ {calls[j].id, calls[k].id} \subseteq RequestIdsOnWire
        /\ Waiting(j)
        /\ calls[k].outcome = "returned"
        /\ calls[k].value.for = calls[k].id

\* C2: the ids allocated in one session strictly increase in allocation
\* order, so they are pairwise distinct, and none exceeds the counter; an id
\* is not handed out again after its call finished.
IdsNeverReused ==
    /\ \A j, k \in CallIdx : j < k => calls[j].id < calls[k].id
    /\ \A k \in CallIdx : 1 <= calls[k].id /\ calls[k].id <= request_id

\* a second id was allocated while the first call's entry had already left
\* the table
IdAllocatedAfterCompletion ==
    \E j, k \in CallIdx :
        /\ j < k
        /\ calls[j].outcome \in {"returned", "raised_error"}
        /\ calls[j].id \notin DOMAIN pending_requests
        /\ calls[k].id = request_id

\* C3: once a request() call has returned or raised (result, server error or
\* timeout), its id is no longer a key of pending_requests.
NoLeakedEntries ==
    \A k \in CallIdx :
        calls[k].outcome \in {"returned", "raised_error", "raised_timeout"} =>
            calls[k].id \notin DOMAIN pending_requests

\* C4: every call that was suspended in request() when stop() ran eventually
\* observes a failure (here: its own wait_for deadline, or cancellation when
\* the daemon exits); none stays suspended for ever.
TeardownDrains ==
    \A k \in 1..MaxCalls :
        (k \in pendingAtStop) ~> (k \in CallIdx /\ calls[k].outcome \in Failures)

\* stop() ran while a call was suspended, and that call has since failed
PendingAtStopHasFailed ==
    \E k \in pendingAtStop :
        /\ stopPc # "idle"
        /\ read_task = "cancelled"
        /\ calls[k].outcome = "raised_timeout"

\* C5: once stop() has terminated the child (and when it has returned),
\* every call that was pending when stop() ran has been completed with a
\* failure and its entry has left pending_requests.
StopFailsPendingFirst ==
    stopPc \in {"waiting", "done"} =>
        \A k \in pendingAtStop :
            /\ calls[k].outcome \in Failures
            /\ calls[k].id \notin DOMAIN pending_requests

\* C6: in the step in which the dispatch loop exits on end-of-stream, every
\* call that was pending has been failed and its entry has left the table.
ProcessDeathDrains ==
    [][(read_task = "running" /\ read_task' = "returned") =>
          \A k \in WaitingCalls :
              /\ calls'[k].outcome \in Failures
              /\ calls[k].id \notin DOMAIN pending_requests']_vars

\* C7: a suspended call does not stay suspended for ever; when it stops
\* waiting without a response having been routed it has raised a timeout;
\* and the step in which a call times out changes neither the dispatch loop
\* nor the child process nor any other call.
TimeoutIsLocal ==
    /\ [][\A k \in CallIdx :
            /\ (Waiting(k) /\ calls'[k].outcome = "raised_timeout") =>
                  /\ read_task' = read_task
                  /\ process' = process
                  /\ \A j \in CallIdx \ {k} : calls'[j] = calls[j]
            /\ (Waiting(k) /\ calls'[k].outcome # "waiting"
                           /\ pending_requests' = pending_requests /\ daemon' = "up") =>
                  calls'[k].outcome = "raised_timeout"]_vars
    /\ \A k \in 1..MaxCalls :
          (k \in CallIdx /\ Waiting(k)) ~> (k \in CallIdx /\ ~Waiting(k))

\* a call has timed out while the loop is running and the child is alive
TimedOutConnectionAlive ==
    \E k \in CallIdx :
        /\ calls[k].outcome = "raised_timeout"
        /\ calls[k].id \in RequestIdsOnWire
        /\ read_task = "running"
        /\ process = "running"

\* a frame is a response for a call that has already timed out
IsLateResponse(msg) ==
    \E k \in CallIdx : calls[k].id = msg.id /\ calls[k].outcome = "raised_timeout"

\* C8: routing a response whose call has already timed out raises nothing in
\* the dispatch loop, changes no call, and leaves the loop running.
LateResponseDiscarded ==
    [][(read_task = "running" /\ stdout # <<>> /\ stdout' = Tail(stdout)
            /\ IsLateResponse(Head(stdout))) =>
          /\ read_errors' = read_errors
          /\ calls' = calls
          /\ read_task' = "running"]_vars

\* position of the first frame on the wire that equals f (0 when there is none)
FirstOnWire(f) ==
    IF \E i \in 1..Len(wire) : wire[i] = f
    THEN CHOOSE i \in 1..Len(wire) : wire[i] = f /\ \A j \in 1..(i - 1) : wire[j] # f
    ELSE 0

\* C9: whenever _initialized is true the handshake call has returned the
\* result of the response to its own id and the initialized notification is
\* on the wire, after the initialize request; and the first frame start()
\* puts on the wire is the initialize request.
HandshakeOrdering ==
    /\ initialized =>
          /\ calls[HandshakeCall].outcome = "returned"
          /\ calls[HandshakeCall].value.for = calls[HandshakeCall].id
          /\ FirstOnWire(NotificationFrame("initialized")) >
                FirstOnWire(RequestFrame(calls[HandshakeCall].id, "initialize"))
          /\ FirstOnWire(RequestFrame(calls[HandshakeCall].id, "initialize")) = 1
    /\ wire # <<>> => (wire[1].type = "request" /\ wire[1].method = "initialize")

\* start() has completed: the flag is set and the notification was written
HandshakeCompleted ==
    /\ initialized
    /\ startPc = "done"
    /\ FirstOnWire(NotificationFrame("initialized")) > 1

\* start() raised after it had issued the handshake request
HandshakeFailed ==
    /\ startPc = "failed"
    /\ \E k \in CallIdx : calls[k].method = "initialize"

\* C10: after start() failed on the handshake, _initialized is false, the
\* child process is not running, the dispatch loop is not running and the
\* table is empty.
FailedStartLeavesNothing ==
    HandshakeFailed =>
        /\ ~initialized
        /\ process # "running"
        /\ read_task # "running"
        /\ DOMAIN pending_requests = {}

\* C11: stop() never raises, whether start() never ran, stop() already ran,
\* or the child has already died.
StopNeverRaises == stopPc # "raised"

\* the read loop takes the next frame from stdout in this step
LoopReads == read_task = "running" /\ stdout # <<>> /\ stdout' = Tail(stdout)

\* C12: no uri has a value before a notification for it was processed; the
\* step that processes a publishDiagnostics notification makes its payload
\* the value of its uri and leaves every other uri as it was; no other step
\* changes a stored value.
LastWriteWins ==
    /\ \A u \in Uris : diagnostics[u] = "absent"
    /\ [][IF LoopReads /\ IsPublish(Head(stdout)) /\ Head(stdout).id = NoId
          THEN \A u \in Uris :
                  diagnostics'[u] = IF u = Head(stdout).uri
                                    THEN Head(stdout).payload.kind
                                    ELSE diagnostics[u]
          ELSE diagnostics' = diagnostics]_vars

\* two notifications for one document were processed, the later one is the
\* stored value, and the other document still reads as absent
DiagnosticsOverwritten ==
    /\ serverMsgs >= 2
    /\ stdout = <<>>
    /\ calls # <<>>
    /\ \A k \in CallIdx : Waiting(k)
    /\ diagnostics["file:///a.py"] = "d2"
    /\ diagnostics["file:///b.py"] = "absent"

\* C14: a call failed by a server error response fails with a failure that
\* carries the error object's code and message.
ErrorCarriesCodeAndMessage ==
    \A k \in CallIdx :
        calls[k].outcome = "raised_error" =>
            /\ calls[k].value.for = calls[k].id
            /\ calls[k].value.message = ServerError.message
            /\ calls[k].value.code = ServerError.code

\* call k is failed in this step by a server error response or by its timeout
FailsNow(k) == Waiting(k) /\ calls'[k].outcome \in {"raised_error", "raised_timeout"}

\* C15: the step in which a server error response or a timeout fails one call
\* leaves every other call, and every other entry of the table, as it was;
\* and a result response dispatched to a call that is still waiting makes that
\* call return the response's result, whatever happened to its siblings.
FailureLocality ==
    [][/\ \A k \in CallIdx :
            FailsNow(k) =>
                /\ \A j \in CallIdx \ {k} : calls'[j] = calls[j]
                /\ \A i \in (DOMAIN pending_requests) \ {calls[k].id} :
                        /\ i \in DOMAIN pending_requests'
                        /\ pending_requests'[i] = pending_requests[i]
       /\ (/\ LoopReads
           /\ IsRoutable(Head(stdout))
           /\ Head(stdout).error = NoError
           /\ Waiting(pending_requests[Head(stdout).id]))
          => LET j == pending_requests[Head(stdout).id]
             IN  /\ calls'[j].outcome = "returned"
                 /\ calls'[j].value = ResultValue(Head(stdout))
                 /\ calls'[j].value.for = calls[j].id]_vars

\* one call has failed by a server error or a timeout and a sibling issued
\* alongside it has returned its own result
SiblingReturnedAfterFailure ==
    \E k, j \in CallIdx :
        /\ k # j
        /\ calls[k].outcome \in {"raised_error", "raised_timeout"}
        /\ calls[j].outcome = "returned"
        /\ calls[j].value.for = calls[j].id

\* positions of the wire that hold the frame f
WirePositions(f) == {i \in 1..Len(wire) : wire[i] = f}

\* C16: every element handed to stdin.write is the whole frame of one request
\* or notification; a request whose send did not raise has exactly one frame
\* on the wire; and request frames stand in increasing id order, the order in
\* which the requests were issued.
WireOrder ==
    /\ \A i \in 1..Len(wire) :
          \/ wire[i] = NotificationFrame("initialized")
          \/ \E k \in CallIdx : wire[i] = RequestFrame(calls[k].id, calls[k].method)
    /\ \A k \in CallIdx :
          Cardinality(WirePositions(RequestFrame(calls[k].id, calls[k].method)))
             = IF calls[k].outcome = "raised_send" THEN 0 ELSE 1
    /\ \A i, j \in 1..Len(wire) :
          (i < j /\ wire[i].type = "request" /\ wire[j].type = "request")
             => wire[i].id < wire[j].id
    /\ \A k, j \in CallIdx : k < j => calls[k].id < calls[j].id

\* two requests are in flight at once and both their frames are on the wire
TwoRequestsOnWire ==
    \E k, j \in CallIdx :
        /\ k < j
        /\ Waiting(k) /\ Waiting(j)
        /\ WirePositions(RequestFrame(calls[k].id, calls[k].method)) # {}
        /\ WirePositions(RequestFrame(calls[j].id, calls[j].method)) # {}

\* C17: the number in the Content-Length header of a written frame is the
\* number of bytes of the body that follows it.
FrameLengthExact ==
    codec.pc \in {"written", "header_read", "decoded"} =>
        codec.header =
            <<67, 111, 110, 116, 101, 110, 116, 45, 76, 101, 110, 103, 116, 104, 58, 32>>
            \o Digits(Len(codec.body)) \o <<13, 10, 13, 10>>

\* a frame whose params hold non-ASCII text has been written
NonAsciiFrameWritten ==
    /\ codec.pc = "written"
    /\ \E i \in 1..Len(codec.params) : codec.params[i] > 127

\* C18: the message the read loop decodes from an encoded request has the
\* request's id, method and params, and the decoder has consumed the frame
\* and nothing after it.
CodecRoundTrip ==
    codec.pc = "decoded" =>
        /\ codec.out = [ok |-> TRUE, id |-> codec.id, method |-> codec.method,
                        params |-> codec.params]
        /\ codec.rest \in Trailing

\* a request whose params hold an astral character and a quote was decoded,
\* with the start of another frame behind it in the stream
EscapedTextDecoded ==
    /\ codec.pc = "decoded"
    /\ codec.params = <<128512, 34>>
    /\ codec.rest # <<>>

\* get_diagnostics is entered, and returns, in this step
ReadBegins == reader.pc # "sleeping" /\ reader'.pc = "sleeping"
ReadReturns == reader.pc # "done" /\ reader'.pc = "done"

\* C13 as stated: reading the stored diagnostics never suspends the caller
\* and writes nothing to the transport.
ReadNeverSuspendsNorWrites ==
    [][reader' # reader => (reader'.pc # "sleeping" /\ wire' = wire)]_vars

\* C13: a call that reads the stored diagnostics of a uri writes nothing but
\* textDocument/didOpen notifications for that uri (one by get_diagnostics,
\* one more by the handler on the first use of the file; none for a file that
\* cannot be read), suspends its caller once, and returns the value stored for
\* the uri at the time it resumes; neither step changes _diagnostics,
\* pending_requests or request_id.
ReadIsSnapshotAfterOpen ==
    [][/\ (ReadBegins \/ ReadReturns) =>
            /\ diagnostics' = diagnostics
            /\ pending_requests' = pending_requests
            /\ request_id' = request_id
       /\ ReadBegins =>
            \E n \in 0..2 : wire' = wire \o [i \in 1..n |-> DidOpenFrame(reader'.uri)]
       /\ ReadReturns =>
            /\ reader.pc = "sleeping"
            /\ wire' = wire
            /\ reader'.result = diagnostics[reader.uri]]_vars

\* a read has returned diagnostics the server had published
ReadReturnedPayload ==
    /\ reader.pc = "done"
    /\ reader.result \in DiagPayloads

\* a frame of the handshake
IsHandshakeFrame(f) ==
    f = NotificationFrame("initialized") \/ (f.type = "request" /\ f.method = "initialize")

\* C19: in the daemon, every frame on the wire that is not part of the
\* handshake comes after the initialized notification, and the initialize
\* call has returned its response by then.
HandshakePrecedesTraffic ==
    \A i \in 1..Len(wire) :
        ~IsHandshakeFrame(wire[i]) =>
            /\ \E j \in 1..(i - 1) : wire[j] = NotificationFrame("initialized")
            /\ calls[HandshakeCall].outcome = "returned"
            /\ calls[HandshakeCall].method = "initialize"

\* a handler has written a request to the language server
HandlerTrafficOnWire ==
    \E i \in 1..Len(wire) : wire[i].type = "request" /\ wire[i].uri # "none"

\* C20: every request about a document on the wire comes after a
\* textDocument/didOpen notification for the same uri.
OpenBeforeUse ==
    \A i \in 1..Len(wire) :
        (wire[i].type = "request" /\ wire[i].uri # "none") =>
            \E j \in 1..(i - 1) : wire[j] = DidOpenFrame(wire[i].uri)

\* C21: at most one daemon process is running, and while one is running a
\* PID file that exists names it.
SingleDaemon ==
    /\ Cardinality({p \in Pids : Alive(p)}) <= 1
    /\ (host.pid_file # NoPid /\ \E p \in Pids : Alive(p)) => Alive(host.pid_file)

\* C22: once the loop has met a frame without a parsable Content-Length or
\* with a body that is no JSON, it is stopped and no call is left pending.
FramingErrorsFatal ==
    (codec.stream \in WholeStreams /\ read_errors > 0) =>
        /\ read_task # "running"
        /\ WaitingCalls = {}

\* C23: when the stream of well-formed frames is closed, between frames, in
\* a header or in a body, the loop does not handle the closure as an error.
EofIsNotAnError ==
    codec.stream \in CleanCuts => read_errors = 0

\* C24: when the loop reads a response whose id belongs to a call that an
\* earlier response has already completed, the step changes no session state
\* and raises nothing, and the call keeps the first response's outcome.
CompletedByResponse(k) == calls[k].fut \in {"result", "exception"}
SecondResponse ==
    /\ LoopReads
    /\ Head(stdout).method = "none"
    /\ \E k \in CallIdx : calls[k].id = Head(stdout).id /\ CompletedByResponse(k)
IdempotentCompletion ==
    [][SecondResponse =>
          UNCHANGED <<calls, pending_requests, diagnostics, read_errors, read_task,
                      initialized, request_id, process, wire>>]_vars
\* two responses to the only request written were both read: the call returned
SecondResponseRead ==
    /\ Cardinality(RequestIdsOnWire) = 1
    /\ serverMsgs = 2
    /\ stdout = <<>>
    /\ read_task = "running"
    /\ \A u \in Uris : diagnostics[u] = "absent"
    /\ \E k \in CallIdx : calls[k].outcome \in {"returned", "raised_error"}

\* C25: when the loop reads a message that is neither a response to a
\* registered id nor a publishDiagnostics notification, pending_requests and
\* _diagnostics stay as they are and the loop keeps running.
Unroutable(msg) == ~IsObject(msg) \/ (~IsRoutable(msg) /\ ~IsPublish(msg))
UnroutableDropped ==
    [][(LoopReads /\ Unroutable(Head(stdout))) =>
          /\ pending_requests' = pending_requests
          /\ diagnostics' = diagnostics
          /\ read_task' = "running"]_vars
\* the one message the server wrote was no object; it was read, the error was
\* printed, every request written is still registered and the loop runs
NonObjectRead ==
    /\ serverMsgs = 1
    /\ stdout = <<>>
    /\ read_errors = 1
    /\ read_task = "running"
    /\ RequestIdsOnWire # {}
    /\ RequestIdsOnWire \subseteq DOMAIN pending_requests

\* C27: every entry the loop removes from pending_requests has its future
\* completed, with a result or an exception, by the same step.
NoOrphanedFutures ==
    [][LoopReads =>
          \A id \in (DOMAIN pending_requests) \ (DOMAIN pending_requests') :
              calls'[pending_requests[id]].fut # "pending"]_vars

\* C28: a waiting call is completed by the loop only when the message read is
\* a response: it carries the call's id and no method.
OnlyResponsesComplete ==
    [][\A k \in CallIdx :
          (Waiting(k) /\ calls'[k].outcome \in {"returned", "raised_error"}) =>
              /\ LoopReads
              /\ Head(stdout).id = calls[k].id
              /\ Head(stdout).method = "none"]_vars

\* C26: _initialized is true only while the child process is alive and the
\* dispatch loop is running.
InitializedMeansAlive ==
    initialized => (process = "running" /\ read_task = "running")

\* C29: a request() that raised because its frame could not be written has
\* left no entry in pending_requests.
FailedSendRegistersNothing ==
    \A k \in CallIdx :
        calls[k].outcome = "raised_send" => calls[k].id \notin DOMAIN pending_requests

\* C30: every path in _indexed_files had a textDocument/didOpen notification
\* written to the language server.
IndexedIsTruthful ==
    \A uri \in indexed : \E i \in 1..Len(wire) : wire[i] = DidOpenFrame(uri)

====
